---- MODULE Spec2Model ----
(***************************************************************************)
(* Model of the session-scoped conversation subsystem of memOS-Framework:  *)
(* the per-IP rate limiter (ui/app/services/rateLimit.ts), the in-memory   *)
(* session store with its periodic sweep (sessionService), the analyze     *)
(* route that uses it, the middleware and the direct-message route, the    *)
(* streaming turn parser and the sends of MemeService, and CharacterChat.  *)
(* Time is Date.now() in milliseconds.                                     *)
(***************************************************************************)
EXTENDS Integers, Sequences, FiniteSets

VARIABLES
    now,        \* Date.now(), milliseconds
    ticks,      \* number of clock advances so far (bounds the run)
    store,      \* rateLimit.ts: store, key -> [count, timestamp]
    rl,         \* the last rateLimit call: [ip, at, success], or NoCall
    calls,      \* number of rateLimit calls so far (bounds the run)
    win,        \* history: per key, its current window as the calls define it
    log,        \* history: per key, the times of all its rateLimit calls
    sessions,   \* SessionManager.sessions: Map<string, UserSession>
    nextSweep,  \* the time the cleanup interval fires next
    issued,     \* the ids uuidv4() has generated so far
    ret,        \* the last SessionManager operation and what it returned
    touched,    \* history: the time of the last read or write of Watched (-1: none)
    lapsed,     \* history: the session of Watched went 5 minutes without a touch
    evicted,    \* history: the ids the sweep has removed
    inflight,   \* analyze requests awaiting the provider: slot -> sessionId
    resp,       \* the last response of the analyze route, numbered
    made,       \* history: the lookup of the in-flight request created its session
    held,       \* analyze requests: slot -> the session the lookup returned
    req,        \* the request the middleware saw last, and how far it got
    dm,         \* the last response of the direct-message route, numbered
    sent,       \* the last sendDirectMessage / sendHackyMessage call, numbered
    svc,        \* MemeService fields: analysed, memeName, imageUrl
    gen,        \* generateConversation: "idle", "reading", "done", "failed"
    fetches,    \* number of requests generateConversation has issued
    asked,      \* the character the request of generateConversation was sent for
    err,        \* the message of the error generateConversation failed with
    stream,     \* the bytes of the response body
    pos,        \* how many of them reader.read() has delivered
    reads,      \* how many chunks reader.read() has delivered
    buffer,     \* generateConversation: buffer
    lines,      \* the complete lines of the last chunk not yet processed
    turns,      \* the turns yielded so far
    chat,       \* CharacterChat fields: descripcionPersonaje, memeName
    init,       \* the inicializarConImagen call: how far it got, and the fields
                \* as they were when it was made
    single      \* the last generateSingleMessage call and what came of it

rateVars == <<store, rl, calls, win, log>>
sessVars == <<sessions, nextSweep, issued, ret, touched, lapsed, evicted>>
routeVars == <<inflight, resp, made, held>>
gateVars == <<req, dm, sent>>
genVars == <<gen, fetches, asked, err, stream, pos, reads, buffer, lines, turns>>
parseVars ==
    <<svc, gen, fetches, asked, err, stream, pos, reads, buffer, lines, turns>>
chatVars == <<chat, init, single>>
clockVars == <<now, ticks>>
vars == <<now, ticks, store, rl, calls, win, log,
          sessions, nextSweep, issued, ret, touched, lapsed, evicted,
          inflight, resp, made, held, req, dm, sent,
          svc, gen, fetches, asked, err, stream, pos, reads, buffer, lines,
          turns, chat, init, single>>

(***************************************************************************)
(* Bounds of the model.                                                    *)
(***************************************************************************)
MaxTicks == 4
MaxCalls == 12
MaxLogCalls == 6
MaxSweeps == 8
MaxPatchTime == 2
MaxInflight == 2
MaxRequests == 3
MaxReads == 3

Keys == {"ip1", "ip2"}

\* Generic helpers on maps (JavaScript objects / Map) as TLA+ functions.
Restrict(f, S) == [k \in S |-> f[k]]
Put(f, k, v) == [x \in (DOMAIN f) \cup {k} |-> IF x = k THEN v ELSE f[x]]

(***************************************************************************)
(* SessionStore: SessionManager of sessionService (src/unnamed/part_002)   *)
(***************************************************************************)
SESSION_TIMEOUT == 1800000
CLEANUP_INTERVAL == 300000

\* uuidv4() values, and ids a client can make up itself.
Uuids == {"u1"}
ClientIds == {"x"}

\* interface UserSession; a missing optional field reads as undefined.
Fields == {"id", "lastActive", "memeService", "analysis"}
Undef == "undefined"
Analyses == {"a1", "a2"}

NoSession == [id |-> "", lastActive |-> -1, memeService |-> Undef, analysis |-> Undef]
NoData == [f \in {} |-> Undef]
NoOp == [op |-> "none", id |-> "", at |-> -1, found |-> FALSE,
         data |-> NoData, val |-> NoSession]

\* lines 21-24 and 32-35: { id: sessionId, lastActive: Date.now() }
NewSession(sessionId, t) ==
    [id |-> sessionId, lastActive |-> t, memeService |-> Undef, analysis |-> Undef]

\* lines 28-39: getSession(sessionId): the store afterwards, and the return value
getSessionStore(S, sessionId, t) ==
    IF sessionId \in DOMAIN S THEN S ELSE Put(S, sessionId, NewSession(sessionId, t))

getSessionRetOrUndefined(S, sessionId, t) ==
    IF sessionId \in DOMAIN S THEN S[sessionId] ELSE NoSession
getSessionRet(S, sessionId, t) ==
    IF sessionId \in DOMAIN S THEN S[sessionId] ELSE NewSession(sessionId, t)

\* lines 44-48: { ...session, ...data, lastActive: Date.now() }
MergeDataLast(session, data, t) ==
    [f \in Fields |->
        IF f \in DOMAIN data THEN data[f]
        ELSE IF f = "lastActive" THEN t
        ELSE session[f]]
MergeReplaces(session, data, t) ==
    [f \in Fields |->
        IF f = "lastActive" THEN t
        ELSE IF f \in DOMAIN data THEN data[f]
        ELSE NewSession(session.id, t)[f]]
Merge(session, data, t) ==
    [f \in Fields |->
        IF f = "lastActive" THEN t
        ELSE IF f \in DOMAIN data THEN data[f]
        ELSE session[f]]

\* lines 41-50: updateSession(sessionId, data): the store afterwards
updateSessionUpserts(S, sessionId, data, t) ==
    IF sessionId \in DOMAIN S
    THEN [S EXCEPT ![sessionId] = Merge(@, data, t)]
    ELSE Put(S, sessionId, Merge(NewSession(sessionId, t), data, t))
updateSessionStore(S, sessionId, data, t) ==
    IF sessionId \in DOMAIN S
    THEN [S EXCEPT ![sessionId] = Merge(@, data, t)]
    ELSE S

\* line 56: now - session.lastActive > this.SESSION_TIMEOUT
TimedOutAtTimeout(session, t) == t - session.lastActive >= SESSION_TIMEOUT
TimedOut(session, t) == t - session.lastActive > SESSION_TIMEOUT

\* lines 54-59: the cleanup callback: the store afterwards
SweepStore(S, t) ==
    Restrict(S, {sessionId \in DOMAIN S : ~TimedOut(S[sessionId], t)})

\* History bookkeeping for one session, that of Watched: a touch (a read or a
\* write) of id at the current time; fresh when the touch creates the session.
Watched == "u1"
Touch(id, fresh) ==
    /\ touched' = IF id = Watched THEN now ELSE touched
    /\ lapsed' = IF id = Watched /\ fresh THEN FALSE ELSE lapsed

\* lines 19-26: createSession(); uuidv4() returns an id never generated before.
createSessionReusesId(sessionId) ==
    /\ sessionId \in Uuids
    /\ issued' = issued \cup {sessionId}
    /\ sessions' = Put(sessions, sessionId, NewSession(sessionId, now))
    /\ ret' = [op |-> "create", id |-> sessionId, at |-> now,
               found |-> sessionId \in DOMAIN sessions,
               data |-> NoData, val |-> NewSession(sessionId, now)]
    /\ Touch(sessionId, TRUE)
    /\ UNCHANGED <<nextSweep, evicted>>
createSession(sessionId) ==
    /\ sessionId \in Uuids \ issued
    /\ issued' = issued \cup {sessionId}
    /\ sessions' = Put(sessions, sessionId, NewSession(sessionId, now))
    /\ ret' = [op |-> "create", id |-> sessionId, at |-> now,
               found |-> sessionId \in DOMAIN sessions,
               data |-> NoData, val |-> NewSession(sessionId, now)]
    /\ Touch(sessionId, TRUE)
    /\ UNCHANGED <<nextSweep, evicted>>

\* lines 28-39: getSession(sessionId)
getSession(sessionId) ==
    /\ sessions' = getSessionStore(sessions, sessionId, now)
    /\ ret' = [op |-> "get", id |-> sessionId, at |-> now,
               found |-> sessionId \in DOMAIN sessions,
               data |-> NoData, val |-> getSessionRet(sessions, sessionId, now)]
    /\ Touch(sessionId, sessionId \notin DOMAIN sessions)
    /\ UNCHANGED <<nextSweep, issued, evicted>>

\* lines 41-50: updateSession(sessionId, data)
updateSession(sessionId, data) ==
    /\ sessions' = updateSessionStore(sessions, sessionId, data, now)
    /\ ret' = [op |-> "update", id |-> sessionId, at |-> now,
               found |-> sessionId \in DOMAIN sessions,
               data |-> data, val |-> NoSession]
    /\ IF sessionId \in DOMAIN sessions
       THEN Touch(sessionId, FALSE)
       ELSE UNCHANGED <<touched, lapsed>>
    /\ UNCHANGED <<nextSweep, issued, evicted>>

\* lines 52-61: the setInterval callback, fired every CLEANUP_INTERVAL
Sweep ==
    /\ now = nextSweep
    /\ sessions' = SweepStore(sessions, now)
    /\ nextSweep' = nextSweep + CLEANUP_INTERVAL
    /\ evicted' = evicted \cup (DOMAIN sessions \ DOMAIN sessions')
    /\ ret' = [op |-> "sweep", id |-> "", at |-> now, found |-> FALSE,
               data |-> NoData, val |-> NoSession]
    /\ UNCHANGED <<issued, touched, lapsed>>

\* lines 14-17: the constructor: an empty map and the interval started
SessionManagerInit ==
    /\ sessions = [sessionId \in {} |-> NoSession]
    /\ nextSweep = CLEANUP_INTERVAL
    /\ issued = {}
    /\ ret = NoOp
    /\ touched = -1
    /\ lapsed = FALSE
    /\ evicted = {}

\* The clock advances to time t, at most to the next firing of the interval:
\* the interval's callback runs at its time, before the clock moves on. What
\* the last operation returned is consumed by then.
SessTick(t) ==
    /\ now < t
    /\ t <= nextSweep
    /\ t <= MaxSweeps * CLEANUP_INTERVAL
    /\ now' = t
    /\ ret' = NoOp
    /\ lapsed' = (lapsed \/ (Watched \in DOMAIN sessions
                              /\ t - touched > CLEANUP_INTERVAL))
    /\ UNCHANGED <<sessions, nextSweep, issued, touched, evicted, ticks>>
    /\ UNCHANGED rateVars
    /\ UNCHANGED routeVars
    /\ UNCHANGED gateVars
    /\ UNCHANGED parseVars
    /\ UNCHANGED chatVars

\* Partial<UserSession> values the store is updated with.
Patches ==
    {[analysis |-> a] : a \in Analyses}
    \cup {[memeService |-> "m1"], [analysis |-> "a1", memeService |-> "m1"]}
    \cup {[lastActive |-> 7], [id |-> "x"]}

\* A client can name an id it was given or one it made up, not a uuid that
\* was never generated.
Known == issued \cup ClientIds

\* What a step of the session store leaves alone.
SessFrame ==
    UNCHANGED <<now, ticks>> /\ UNCHANGED rateVars /\ UNCHANGED gateVars
        /\ UNCHANGED parseVars /\ UNCHANGED chatVars

\* GET of the session route (part_001 lines 4-7) and direct calls of the store.
CreateOp == \E sessionId \in Uuids : createSession(sessionId) /\ SessFrame /\ UNCHANGED routeVars
GetOp == \E sessionId \in Known : getSession(sessionId) /\ SessFrame /\ UNCHANGED routeVars
UpdateOp(P) == \E sessionId \in Known, data \in P : updateSession(sessionId, data) /\ SessFrame /\ UNCHANGED routeVars
SweepOp == Sweep /\ SessFrame /\ UNCHANGED routeVars

(***************************************************************************)
(* The analyze route: POST of src/unnamed/part_000                         *)
(***************************************************************************)
Slots == 1..MaxInflight
Free == ""

NoResp == [n |-> 0, sid |-> "", status |-> 0, success |-> FALSE, analysis |-> Undef]

\* What the awaited provider call can come to: it raises, returns no content,
\* returns content JSON.parse rejects, or returns an analysis.
ProviderFailures == {"raise", "empty", "badjson"}
ProviderOutcomes == ProviderFailures \cup Analyses

Respond(sid, status, success, analysis) ==
    resp' = [n |-> resp.n + 1, sid |-> sid, status |-> status,
             success |-> success, analysis |-> analysis]

\* lines 11-37: the form is read, sessionId checked, the session looked up
\* (which creates it when absent) and kept in the handler's constant session,
\* a lookup without a session answered 401 (NoSession stands for undefined),
\* file and memeName checked; the handler then suspends at the awaits of
\* lines 39 and 44.
AnalyzeReceive(sessionId, file, memeName) ==
    /\ resp.n + Cardinality({sl \in Slots : inflight[sl] # Free}) < MaxRequests
    /\ IF sessionId = ""
       THEN /\ Respond("", 400, FALSE, Undef)
            /\ UNCHANGED <<inflight, made, held, sessVars>>
       ELSE /\ getSession(sessionId)
            /\ IF getSessionRet(sessions, sessionId, now) = NoSession
               THEN /\ Respond(sessionId, 401, FALSE, Undef)
                    /\ UNCHANGED <<inflight, made, held>>
               ELSE IF ~file \/ ~memeName
               THEN /\ Respond(sessionId, 400, FALSE, Undef)
                    /\ UNCHANGED <<inflight, made, held>>
               ELSE /\ \E sl \in Slots :
                         /\ inflight[sl] = Free
                         /\ \A lower \in Slots : lower < sl => inflight[lower] # Free
                         /\ inflight' = [inflight EXCEPT ![sl] = sessionId]
                         /\ made' = [made EXCEPT
                                          ![sl] = sessionId \notin DOMAIN sessions]
                         /\ held' = [held EXCEPT
                                          ![sl] = getSessionRet(sessions, sessionId, now)]
                    /\ UNCHANGED resp

\* lines 44-90: the provider call returns or raises; a failure is answered
\* with status 500 by the catch, a success is stored and answered. Line 83
\* hands updateSession the id, not the session of line 24: the analysis is
\* merged into the session the store holds then.
AnalyzeCompleteMergesHeld(sl, outcome) ==
    LET sessionId == inflight[sl]
        data == [analysis |-> outcome]
    IN  /\ inflight[sl] # Free
        /\ inflight' = [inflight EXCEPT ![sl] = Free]
        /\ made' = [made EXCEPT ![sl] = FALSE]
        /\ held' = [held EXCEPT ![sl] = NoSession]
        /\ IF outcome \in ProviderFailures
           THEN /\ Respond(sessionId, 500, FALSE, Undef)
                /\ UNCHANGED sessVars
           ELSE /\ sessions' = IF sessionId \in DOMAIN sessions
                               THEN [sessions EXCEPT
                                        ![sessionId] = Merge(held[sl], data, now)]
                               ELSE sessions
                /\ ret' = [op |-> "update", id |-> sessionId, at |-> now,
                           found |-> sessionId \in DOMAIN sessions,
                           data |-> data, val |-> NoSession]
                /\ IF sessionId \in DOMAIN sessions
                   THEN Touch(sessionId, FALSE)
                   ELSE UNCHANGED <<touched, lapsed>>
                /\ UNCHANGED <<nextSweep, issued, evicted>>
                /\ Respond(sessionId, 200, TRUE, outcome)
AnalyzeComplete(sl, outcome) ==
    /\ inflight[sl] # Free
    /\ inflight' = [inflight EXCEPT ![sl] = Free]
    /\ made' = [made EXCEPT ![sl] = FALSE]
    /\ held' = [held EXCEPT ![sl] = NoSession]
    /\ IF outcome \in ProviderFailures
       THEN /\ Respond(inflight[sl], 500, FALSE, Undef)
            /\ UNCHANGED sessVars
       ELSE /\ updateSession(inflight[sl], [analysis |-> outcome])
            /\ Respond(inflight[sl], 200, TRUE, outcome)

RouteInit ==
    /\ inflight = [sl \in Slots |-> Free]
    /\ resp = NoResp
    /\ made = [sl \in Slots |-> FALSE]
    /\ held = [sl \in Slots |-> NoSession]

(***************************************************************************)
(* StreamingTurnParser: MemeService.generateConversation                   *)
(* (src/unnamed/part_001 lines 78-138). Text is a sequence of characters,  *)
(* the response body a sequence of bytes. An ASCII byte is its character;  *)
(* Lead, Cont are the two bytes of the UTF-8 encoding of one non-ASCII     *)
(* character, TwoByteChar.                                                 *)
(***************************************************************************)
Lead == "0xC3"
Cont == "0xA9"
TwoByteChar == "U+00E9"
Replacement == "U+FFFD"

DataPrefix ==
    <<"d", "a", "t", "a", ":", " ">>
HackyMarker ==
    <<"H", "a", "c", "k", "y", ":">>
Hacky ==
    <<"H", "a", "c", "k", "y">>
MessageOpen ==
    <<"{", "\"", "m", "e", "s", "s", "a", "g", "e", "\"", ":", "\"">>
MessageClose ==
    <<"\"", "}">>
MessageKey ==
    <<"{", "\"", "m", "e", "s", "s", "a", "g", "e", "\"", ":">>
EmptyObject ==
    <<"{", "}">>
NullText ==
    <<"n", "u", "l", "l">>
Digits == {"0", "5"}
HackyImage == "/images/hacky.jpeg"

Slice(s, n) == IF n >= Len(s) THEN <<>> ELSE SubSeq(s, n + 1, Len(s))
StartsWith(s, prefix) ==
    Len(s) >= Len(prefix) /\ SubSeq(s, 1, Len(prefix)) = prefix
EndsWith(s, suffix) ==
    Len(s) >= Len(suffix) /\ SubSeq(s, Len(s) - Len(suffix) + 1, Len(s)) = suffix

\* String.prototype.trim and the whitespace JSON.parse skips.
WhiteSpace == {" ", "\t", "\r", "\n"}
Trim(s) ==
    LET kept == {i \in DOMAIN s : s[i] \notin WhiteSpace} IN
    IF kept = {} THEN <<>>
    ELSE SubSeq(s, CHOOSE i \in kept : \A j \in kept : i <= j,
                   CHOOSE i \in kept : \A j \in kept : i >= j)

\* line 111: decoder.decode(value), a TextDecoder without { stream: true }:
\* every chunk is decoded on its own, and a byte sequence the chunk leaves
\* incomplete, or a continuation byte without its lead, becomes U+FFFD.
\* Per byte: an ASCII byte is its character; a Lead followed by a Cont is the
\* two-byte character, any other Lead is U+FFFD; a Cont after a Lead was
\* consumed with it (Consumed marks it), any other Cont is U+FFFD.
Consumed == "consumed"
IsText(c) == c # Consumed
decode(value) ==
    SelectSeq(
        [i \in DOMAIN value |->
            IF value[i] = Lead
            THEN IF i < Len(value) /\ value[i + 1] = Cont
                 THEN TwoByteChar ELSE Replacement
            ELSE IF value[i] = Cont
                 THEN IF i > 1 /\ value[i - 1] = Lead
                      THEN Consumed ELSE Replacement
                 ELSE value[i]],
        IsText)

\* line 112: buffer.split('\n')
\* The k-th part runs from after the (k-1)-th newline to before the k-th one
\* (from the start, to the end, for the first and the last part).
split(text) ==
    LET breaks == {i \in DOMAIN text : text[i] = "\n"}
        break(k) == IF k = 0 THEN 0
                    ELSE IF k > Cardinality(breaks) THEN Len(text) + 1
                    ELSE CHOOSE i \in breaks :
                            Cardinality({j \in breaks : j < i}) = k - 1
    IN  [k \in 1..(Cardinality(breaks) + 1) |->
            SubSeq(text, break(k - 1) + 1, break(k) - 1)]

\* line 118: JSON.parse, on the payloads the streams of this model carry:
\* {"message":"<text>"} with a text free of quotes, backslashes and control
\* characters parses to an object with that string message, {"message":<digit>}
\* to an object with a number message, {} to an object without one, null to
\* null, and every other payload of these streams is no JSON text and throws.
\* type is typeof data.message.
JSONparse(text) ==
    LET t == Trim(text)
        inner == SubSeq(t, Len(MessageOpen) + 1, Len(t) - Len(MessageClose))
    IN  IF t = EmptyObject
        THEN [kind |-> "object", type |-> "undefined", message |-> <<>>]
        ELSE IF t = NullText
        THEN [kind |-> "null", type |-> "undefined", message |-> <<>>]
        ELSE IF /\ StartsWith(t, MessageOpen)
                /\ EndsWith(t, MessageClose)
                /\ Len(t) >= Len(MessageOpen) + Len(MessageClose)
                /\ \A i \in DOMAIN inner : inner[i] \notin {"\"", "\\", "\n", "\r", "\t"}
        THEN [kind |-> "object", type |-> "string", message |-> inner]
        ELSE IF /\ Len(t) = Len(MessageKey) + 2
                /\ StartsWith(t, MessageKey)
                /\ t[Len(t) - 1] \in Digits
                /\ t[Len(t)] = "}"
        THEN [kind |-> "object", type |-> "number", message |-> <<t[Len(t) - 1]>>]
        ELSE [kind |-> "throws", type |-> "undefined", message |-> <<>>]

\* line 119: if (data.message): a non-empty string or a number other than 0
Truthy(data) ==
    /\ data.kind = "object"
    /\ \/ data.type = "string" /\ data.message # <<>>
       \/ data.type = "number" /\ data.message # <<"0">>

\* lines 119-126: the turn yielded for a message
TurnOfStripsName(message, memeName, imageUrl) ==
    LET isHackyMessage == StartsWith(message, HackyMarker) IN
    [speaker |-> IF isHackyMessage THEN Hacky ELSE memeName,
     message |-> IF isHackyMessage
                 THEN Trim(Slice(message, 6))
                 ELSE IF StartsWith(message, memeName \o <<":">>)
                      THEN Trim(Slice(message, Len(memeName) + 1))
                      ELSE Trim(message),
     imageUrl |-> IF isHackyMessage THEN HackyImage ELSE imageUrl,
     isHacky |-> isHackyMessage]
TurnOfImageBySpeaker(message, memeName, imageUrl) ==
    LET isHackyMessage == StartsWith(message, HackyMarker)
        speaker == IF isHackyMessage THEN Hacky ELSE memeName
    IN  [speaker |-> speaker,
         message |-> IF isHackyMessage
                     THEN Trim(Slice(message, 6))
                     ELSE Trim(Slice(message, Len(memeName) + 1)),
         imageUrl |-> IF speaker = Hacky THEN HackyImage ELSE imageUrl,
         isHacky |-> speaker = Hacky]
TurnOfNameFirst(message, memeName, imageUrl) ==
    LET isName == StartsWith(message, memeName \o <<":">>)
        isHackyMessage == ~isName /\ StartsWith(message, HackyMarker)
    IN  [speaker |-> IF isHackyMessage THEN Hacky ELSE memeName,
         message |-> IF isHackyMessage
                     THEN Trim(Slice(message, 6))
                     ELSE Trim(Slice(message, Len(memeName) + 1)),
         imageUrl |-> IF isHackyMessage THEN HackyImage ELSE imageUrl,
         isHacky |-> isHackyMessage]
TurnOf(message, memeName, imageUrl) ==
    LET isHackyMessage == StartsWith(message, HackyMarker) IN
    [speaker |-> IF isHackyMessage THEN Hacky ELSE memeName,
     message |-> IF isHackyMessage
                 THEN Trim(Slice(message, 6))
                 ELSE Trim(Slice(message, Len(memeName) + 1)),
     imageUrl |-> IF isHackyMessage THEN HackyImage ELSE imageUrl,
     isHacky |-> isHackyMessage]

\* lines 117-127: what the try block throws for a line: JSON.parse a
\* SyntaxError; data.message of null, and startsWith of a message that is no
\* string, a TypeError.
Thrown(line) ==
    IF ~StartsWith(line, DataPrefix) THEN "none"
    ELSE LET data == JSONparse(Slice(line, 5)) IN
         IF data.kind = "throws" THEN "SyntaxError"
         ELSE IF data.kind = "null" THEN "TypeError"
         ELSE IF Truthy(data) /\ data.type # "string" THEN "TypeError"
         ELSE "none"

\* lines 128-130: catch (e) takes whatever the try block throws and logs it;
\* nothing escapes to the loop.
EscapesTypeError(line) == Thrown(line) = "TypeError"
Escapes(line) == Thrown(line) \notin {"none", "SyntaxError", "TypeError"}

\* lines 116-131: what one complete line yields: one turn or nothing
ProcessLine(line, memeName, imageUrl) ==
    IF StartsWith(line, DataPrefix)
    THEN LET data == JSONparse(Slice(line, 5)) IN
         IF Thrown(line) = "none" /\ Truthy(data)
         THEN <<TurnOf(data.message, memeName, imageUrl)>>
         ELSE <<>>
    ELSE <<>>

Pepe ==
    <<"P", "e", "p", "e">>
\* interface CharacterAnalysis (lines 27-32) and the fields of MemeService
\* (lines 35-38): analysis is descripcionPersonaje, analysed says that it and
\* descripcionTexto are set; Null stands for the null of line 35.
Null ==
    [name |-> <<>>, appearanceTraits |-> <<>>, possibleJokes |-> <<>>,
     personality |-> ""]
PepeAnalysis ==
    [name |-> Pepe, appearanceTraits |-> <<"green">>,
     possibleJokes |-> <<"rare">>, personality |-> "chill"]
HackyAnalysis ==
    [name |-> Hacky, appearanceTraits |-> <<"hoodie">>,
     possibleJokes |-> <<>>, personality |-> "hacker"]
NoService ==
    [analysed |-> FALSE, analysis |-> Null, memeName |-> <<>>, imageUrl |-> ""]
PepeService ==
    [analysed |-> TRUE, analysis |-> PepeAnalysis, memeName |-> Pepe,
     imageUrl |-> "blob:pepe"]
\* A character that has the name of the secondary persona.
HackyService ==
    [analysed |-> TRUE, analysis |-> HackyAnalysis, memeName |-> Hacky,
     imageUrl |-> "blob:hacky"]
\* The characters a page can hold; the last is Pepe analysed again from
\* another file.
Characters ==
    {PepeService, HackyService, [PepeService EXCEPT !.imageUrl = "blob:pepe2"]}

\* Response bodies the parser is run on.
HackyGm ==
    <<"d", "a", "t", "a", ":", " ", "{", "\"", "m", "e", "s", "s", "a",
      "g", "e", "\"", ":", "\"", "H", "a", "c", "k", "y", ":", " ", "g",
      "m", "\"", "}", "\n">>
Mixed ==
    <<":", " ", "p", "i", "n", "g", "\n", "\n", "d", "a", "t", "a", ":",
      " ", "{", "n", "o", "t", " ", "j", "s", "o", "n", "\n", "d", "a",
      "t", "a", ":", " ", "{", "\"", "m", "e", "s", "s", "a", "g", "e",
      "\"", ":", "\"", "P", "e", "p", "e", ":", " ", "t", "o", " ", "t",
      "h", "e", " ", "m", "o", "o", "n", "\"", "}", "\n", "d", "a", "t",
      "a", ":", " ", "{", "\"", "m", "e", "s", "s">>
NonAscii ==
    <<"d", "a", "t", "a", ":", " ", "{", "\"", "m", "e", "s", "s", "a",
      "g", "e", "\"", ":", "\"", "P", "e", "p", "e", ":", " ", "g", "m",
      " ", Lead, Cont, "\"", "}", "\n">>
NoMessage ==
    <<"d", "a", "t", "a", ":", " ", "{", "}", "\n", "d", "a", "t", "a",
      ":", " ", "{", "\"", "m", "e", "s", "s", "a", "g", "e", "\"", ":",
      "\"", "\"", "}", "\n", "e", "v", "e", "n", "t", ":", " ", "e", "n",
      "d", "\n">>
Odd ==
    <<"d", "a", "t", "a", ":", " ", "n", "u", "l", "l", "\n", "d", "a", "t",
      "a", ":", " ", "{", "\"", "m", "e", "s", "s", "a", "g", "e", "\"",
      ":", "5", "}", "\n", "d", "a", "t", "a", ":", " ", "{", "\"", "m",
      "e", "s", "s", "a", "g", "e", "\"", ":", "\"", "W", "a", "g", "m",
      "i", " ", "f", "r", "e", "n", "s", "\"", "}", "\n", "d", "a", "t",
      "a", ":", " ", "{", "\"", "m", "e", "s", "s", "a", "g", "e", "\"",
      ":", "\"", "P", "e", "p", "e", ":", " ", "t", "o", " ", "t", "h", "e",
      " ", "m", "o", "o", "n", "\"", "}", "\n">>
Unterminated ==
    <<"d", "a", "t", "a", ":", " ", "{", "\"", "m", "e", "s", "s", "a", "g",
      "e", "\"", ":", "\"", "H", "a", "c", "k", "y", ":", " ", "g", "m",
      "\"", "}">>
Both ==
    <<"d", "a", "t", "a", ":", " ", "{", "\"", "m", "e", "s", "s", "a", "g",
      "e", "\"", ":", "\"", "H", "a", "c", "k", "y", ":", " ", "g", "m",
      "\"", "}", "\n", "d", "a", "t", "a", ":", " ", "{", "\"", "m", "e",
      "s", "s", "a", "g", "e", "\"", ":", "\"", "W", "a", "g", "m", "i",
      " ", "f", "r", "e", "n", "s", "\"", "}", "\n">>
Streams == {HackyGm, Mixed, NonAscii, NoMessage, Odd, Unterminated, <<>>}

\* lines 94-98: the body of the request names the character as the service
\* holds it when the request is sent; the image held then goes with it.
NoAsked == [memeName |-> <<>>, imageUrl |-> ""]

\* The errors generateConversation throws itself (lines 85 and 102).
MustAnalyze == "Must analyze image first"
NoBody == "No response body"

\* lines 84-102: the precondition, then the one fetch of the invocation
GenStartFetchesFirst(hasBody) ==
    /\ gen = "idle"
    /\ fetches' = fetches + 1
    /\ asked' = [memeName |-> svc.memeName, imageUrl |-> svc.imageUrl]
    /\ IF ~svc.analysed
       THEN gen' = "failed" /\ err' = MustAnalyze
       ELSE /\ gen' = IF hasBody THEN "reading" ELSE "failed"
            /\ err' = IF hasBody THEN err ELSE NoBody
    /\ UNCHANGED <<svc, stream, pos, reads, buffer, lines, turns>>
GenStart(hasBody) ==
    /\ gen = "idle"
    /\ IF ~svc.analysed
       THEN gen' = "failed" /\ err' = MustAnalyze /\ UNCHANGED <<fetches, asked>>
       ELSE /\ fetches' = fetches + 1
            /\ asked' = [memeName |-> svc.memeName, imageUrl |-> svc.imageUrl]
            /\ gen' = IF hasBody THEN "reading" ELSE "failed"
            /\ err' = IF hasBody THEN err ELSE NoBody
    /\ UNCHANGED <<svc, stream, pos, reads, buffer, lines, turns>>

\* lines 108-113: reader.read() delivers the next n bytes; they are decoded,
\* appended to the buffer, and the buffer is split into its complete lines and
\* the fragment that stays buffered.
Read(n) ==
    /\ gen = "reading"
    /\ lines = <<>>
    /\ reads < MaxReads
    /\ pos + n <= Len(stream)
    /\ LET value == SubSeq(stream, pos + 1, pos + n)
           parts == split(buffer \o decode(value))
       IN  /\ lines' = SubSeq(parts, 1, Len(parts) - 1)
           /\ buffer' = parts[Len(parts)]
    /\ pos' = pos + n
    /\ reads' = reads + 1
    /\ UNCHANGED <<svc, gen, fetches, asked, err, stream, turns>>

\* lines 115-131: the next complete line is processed; the generator suspends
\* at each yield. An error that escaped the catch of line 128 would end the
\* generator through the catch of line 134.
NextLineFromEnd ==
    /\ gen = "reading"
    /\ lines # <<>>
    /\ turns' = turns \o ProcessLine(lines[Len(lines)], svc.memeName, svc.imageUrl)
    /\ lines' = SubSeq(lines, 1, Len(lines) - 1)
    /\ UNCHANGED <<svc, gen, fetches, asked, err, stream, pos, reads, buffer>>
NextLine ==
    /\ gen = "reading"
    /\ lines # <<>>
    /\ turns' = turns \o ProcessLine(Head(lines), svc.memeName, svc.imageUrl)
    /\ lines' = Tail(lines)
    /\ gen' = IF Escapes(Head(lines)) THEN "failed" ELSE gen
    /\ err' = IF Escapes(Head(lines)) THEN Thrown(Head(lines)) ELSE err
    /\ UNCHANGED <<svc, fetches, asked, stream, pos, reads, buffer>>

\* lines 108-109: reader.read() reports done once every byte was delivered;
\* the loop is left and what the buffer still holds is dropped with it.
ReadDoneFlushes ==
    /\ gen = "reading"
    /\ lines = <<>>
    /\ pos = Len(stream)
    /\ gen' = "done"
    /\ turns' = turns \o ProcessLine(buffer, svc.memeName, svc.imageUrl)
    /\ UNCHANGED <<svc, fetches, asked, err, stream, pos, reads, buffer, lines>>
ReadDone ==
    /\ gen = "reading"
    /\ lines = <<>>
    /\ pos = Len(stream)
    /\ gen' = "done"
    /\ UNCHANGED <<svc, fetches, asked, err, stream, pos, reads, buffer, lines,
                   turns>>

ServiceIdleInit ==
    /\ svc = NoService
    /\ gen = "idle"
    /\ fetches = 0
    /\ asked = NoAsked
    /\ err = ""
    /\ stream = <<>>
    /\ pos = 0
    /\ reads = 0
    /\ buffer = <<>>
    /\ lines = <<>>
    /\ turns = <<>>

\* What a step of the parser leaves alone.
ParseFrame ==
    UNCHANGED <<now, ticks>> /\ UNCHANGED rateVars /\ UNCHANGED sessVars
        /\ UNCHANGED routeVars /\ UNCHANGED gateVars /\ UNCHANGED chatVars

(***************************************************************************)
(* RateLimiter: src/ui/app/services/rateLimit.ts                           *)
(***************************************************************************)
windowMs == 60000
limit == 10

NoCall == [ip |-> "", at |-> -1, success |-> FALSE]
NoEntry == [count |-> 0, timestamp |-> -1]
NoWindow == [start |-> -1, n |-> 0, prev |-> 0]

\* Clock advances the rate limiter is exercised with: 1 ms, and a whole window.
RateSteps == {1, windowMs}

\* now - store[key].timestamp > windowMs (lines 17 and 25)
ExpiredOffByOne(timestamp, t) == t - timestamp >= windowMs
Expired(timestamp, t) == t - timestamp > windowMs

\* lines 16-20: delete every entry older than windowMs
PurgeSkipped(st, t) == st
Purge(st, t) ==
    Restrict(st, {key \in DOMAIN st : ~Expired(st[key].timestamp, t)})

\* lines 23-29: start a window for ip, restart an expired one, or count the call
CountSliding(st, ip, t) ==
    IF ip \notin DOMAIN st
    THEN Put(st, ip, [count |-> 1, timestamp |-> t])
    ELSE IF Expired(st[ip].timestamp, t)
         THEN Put(st, ip, [count |-> 1, timestamp |-> t])
         ELSE [st EXCEPT ![ip] = [count |-> @.count + 1, timestamp |-> t]]
CountExtendsOnReject(st, ip, t) ==
    IF ip \notin DOMAIN st
    THEN Put(st, ip, [count |-> 1, timestamp |-> t])
    ELSE IF Expired(st[ip].timestamp, t)
         THEN Put(st, ip, [count |-> 1, timestamp |-> t])
         ELSE IF st[ip].count >= limit
              THEN [st EXCEPT ![ip] = [count |-> @.count + 1, timestamp |-> t]]
              ELSE [st EXCEPT ![ip].count = @ + 1]
Count(st, ip, t) ==
    IF ip \notin DOMAIN st
    THEN Put(st, ip, [count |-> 1, timestamp |-> t])
    ELSE IF Expired(st[ip].timestamp, t)
         THEN Put(st, ip, [count |-> 1, timestamp |-> t])
         ELSE [st EXCEPT ![ip].count = @ + 1]

\* line 32: success: store[ip].count <= limit
WithinLimitStrict(st, ip) == st[ip].count < limit
WithinLimit(st, ip) == st[ip].count <= limit

\* History: the window of a key as the sequence of its calls defines it. The
\* key's first call opens a window; a call made after the open window has
\* elapsed opens the next one (prev remembers how many calls the elapsed window
\* saw); every other call is the next call of the open window.
NextWindow(w, t) ==
    IF w.start = -1 \/ t - w.start > windowMs
    THEN [start |-> t, n |-> 1, prev |-> w.n]
    ELSE [w EXCEPT !.n = @ + 1]

\* rateLimit(ip), lines 10-34; the function has no await inside, so it runs
\* to completion without interleaving.
rateLimit(ip) ==
    LET st == Count(Purge(store, now), ip, now) IN
    /\ store' = st
    /\ rl' = [ip |-> ip, at |-> now, success |-> WithinLimit(st, ip)]
    /\ calls' = calls + 1
    /\ win' = [win EXCEPT ![ip] = NextWindow(@, now)]

\* A request reaching the rate limiter.
Request(ip) ==
    /\ calls < MaxCalls
    /\ rateLimit(ip)
    /\ UNCHANGED <<log, now, ticks>>
    /\ UNCHANGED sessVars
    /\ UNCHANGED routeVars
    /\ UNCHANGED gateVars
    /\ UNCHANGED parseVars
    /\ UNCHANGED chatVars

\* The same, with the time of the call recorded in the history log.
LoggedRequest(ip) ==
    /\ calls < MaxLogCalls
    /\ rateLimit(ip)
    /\ log' = [log EXCEPT ![ip] = Append(@, now)]
    /\ UNCHANGED <<now, ticks>>
    /\ UNCHANGED sessVars
    /\ UNCHANGED routeVars
    /\ UNCHANGED gateVars
    /\ UNCHANGED parseVars
    /\ UNCHANGED chatVars

\* The clock advances between calls.
RateTick(d) ==
    /\ ticks < MaxTicks
    /\ now' = now + d
    /\ ticks' = ticks + 1
    /\ UNCHANGED rateVars
    /\ UNCHANGED sessVars
    /\ UNCHANGED routeVars
    /\ UNCHANGED gateVars
    /\ UNCHANGED parseVars
    /\ UNCHANGED chatVars

(***************************************************************************)
(* The direct-message route: POST of                                       *)
(* src/ui/app/api/meme/direct-message/route.ts. A field of the request     *)
(* body is given by whether it is present and not empty.                   *)
(***************************************************************************)
FieldsRequired == "Message, description and memeName are required"
NoValidReply == "No se recibio respuesta valida de OpenAI"
ProviderRaised == "provider error"

\* What openai.chat.completions.create comes to: it raises, returns no
\* content, or returns a reply.
Replies == {"gm"}
CompletionOutcomes == {"raise", "empty"} \cup Replies

NoDm == [n |-> 0, provider |-> "none", status |-> 0, body |-> [error |-> ""]]

\* line 13: the provider is called when no field is missing
CallsProvider(message, description, memeName) ==
    message /\ description /\ memeName

\* lines 13-18 and 43-53: the status and the JSON body of the response
DirectMessageResponse(message, description, memeName, outcome) ==
    IF ~CallsProvider(message, description, memeName)
    THEN [status |-> 400, body |-> [error |-> FieldsRequired]]
    ELSE IF outcome = "raise"
    THEN [status |-> 500, body |-> [error |-> ProviderRaised]]
    ELSE IF outcome = "empty"
    THEN [status |-> 500, body |-> [error |-> NoValidReply]]
    ELSE [status |-> 200, body |-> [success |-> TRUE, message |-> outcome]]

\* lines 9-55: POST; provider is what the provider call came to, "none"
\* when the provider was not called.
DirectMessagePOST(message, description, memeName, outcome) ==
    LET called == CallsProvider(message, description, memeName)
        response == DirectMessageResponse(message, description, memeName, outcome)
    IN  /\ dm.n < MaxRequests
        /\ dm' = [n |-> dm.n + 1,
                  provider |-> IF called THEN outcome ELSE "none",
                  status |-> response.status,
                  body |-> response.body]

(***************************************************************************)
(* The middleware (src/unnamed/part_001 lines 8-26) in front of the route  *)
(* handlers. A pathname is the sequence of its segments: '/api/meme/chat'  *)
(* is <<"api", "meme", "chat">>, '/' is <<"">>.                            *)
(***************************************************************************)
SessionCreatePath == <<"api", "session", "create">>
AnalyzePath == <<"api", "meme", "analyze">>
ChatPath == <<"api", "meme", "chat">>
DirectMessagePath == <<"api", "meme", "direct-message">>
HomePath == <<"">>
RoutePaths == {SessionCreatePath, AnalyzePath, ChatPath, DirectMessagePath}
Paths == RoutePaths \cup {HomePath}

\* line 14: request.ip ?? '127.0.0.1'
Localhost == "127.0.0.1"
Ips == {"ip1", Undef}
KeyOf(ip) == IF ip = Undef THEN Localhost ELSE ip

TooManyRequests == "Demasiadas solicitudes"

\* line 13: request.nextUrl.pathname.startsWith('/api/')
StartsWithApiMeme(path) == Len(path) >= 3 /\ path[1] = "api" /\ path[2] = "meme"
StartsWithApi(path) == Len(path) >= 2 /\ path[1] = "api"

\* seen is the number of rateLimit calls made before the request arrived.
NoReq == [path |-> <<>>, key |-> "", seen |-> 0, stage |-> "none", status |-> 0]
NoSent == [n |-> 0, op |-> "none", requests |-> 0, provider |-> "none",
           result |-> "none", value |-> ""]

\* The request is done with: only its outcome is kept.
Done(stage, status) == req' = [NoReq EXCEPT !.stage = stage, !.status = status]
Handled(status) == Done("handled", status)

\* The model follows MaxRequests requests to the routes that change the
\* session store or call a provider; the ids of uuidv4() are those of Uuids.
Followed ==
    resp.n + Cardinality({sl \in Slots : inflight[sl] # Free}) + dm.n
        + Cardinality(issued)
HandlerReady(path) ==
    /\ path \in {SessionCreatePath, AnalyzePath, DirectMessagePath} =>
          Followed < MaxRequests
    /\ path = SessionCreatePath => Uuids \ issued # {}

\* lines 12-26: middleware(request): a request under /api/ is counted by
\* rateLimit and answered 429 when over the limit; every other request, and
\* every request within the limit, goes on (NextResponse.next()).
middleware(path, ip) ==
    /\ req.stage # "next"
    /\ calls < MaxCalls
    /\ HandlerReady(path)
    /\ IF StartsWithApi(path)
       THEN LET success == WithinLimit(Count(Purge(store, now), KeyOf(ip), now),
                                       KeyOf(ip))
            IN  /\ rateLimit(KeyOf(ip))
                /\ IF success
                   THEN req' = [path |-> path, key |-> KeyOf(ip),
                                seen |-> calls, stage |-> "next", status |-> 0]
                   ELSE Done("rejected", 429)
       ELSE /\ req' = [path |-> path, key |-> KeyOf(ip), seen |-> calls,
                       stage |-> "next", status |-> 0]
            /\ UNCHANGED <<store, rl, calls, win>>
    /\ UNCHANGED <<now, ticks, log, dm, sent>>
    /\ UNCHANGED sessVars
    /\ UNCHANGED routeVars
    /\ UNCHANGED parseVars
    /\ UNCHANGED chatVars

\* What the handler of a request leaves alone besides its own state.
GateFrame ==
    UNCHANGED <<now, ticks, sent>> /\ UNCHANGED rateVars /\ UNCHANGED parseVars
        /\ UNCHANGED chatVars

\* part_001 lines 4-7: GET /api/session/create
SessionCreateGET ==
    /\ req.stage = "next"
    /\ req.path = SessionCreatePath
    /\ \E sessionId \in Uuids : createSession(sessionId)
    /\ Handled(200)
    /\ UNCHANGED routeVars
    /\ UNCHANGED dm
    /\ GateFrame

\* part_000: POST /api/meme/analyze, up to its awaits
AnalyzePOST(sessionId, file, memeName) ==
    /\ req.stage = "next"
    /\ req.path = AnalyzePath
    /\ AnalyzeReceive(sessionId, file, memeName)
    /\ Handled(IF resp'.n # resp.n THEN resp'.status ELSE 0)
    /\ UNCHANGED dm
    /\ GateFrame

\* POST /api/meme/direct-message
DirectMessageRoute(message, description, memeName, outcome) ==
    /\ req.stage = "next"
    /\ req.path = DirectMessagePath
    /\ DirectMessagePOST(message, description, memeName, outcome)
    /\ Handled(dm'.status)
    /\ UNCHANGED sessVars
    /\ UNCHANGED routeVars
    /\ GateFrame

\* POST /api/meme/chat (part_001 line 89); the route itself is not part of
\* the sources, only that it is reached.
ChatRoute ==
    /\ req.stage = "next"
    /\ req.path = ChatPath
    /\ Handled(200)
    /\ UNCHANGED sessVars
    /\ UNCHANGED routeVars
    /\ UNCHANGED dm
    /\ GateFrame

\* A request for a page: no route handler, the page (part_004) is served.
ServePage ==
    /\ req.stage = "next"
    /\ req.path \notin RoutePaths
    /\ Done("served", 200)
    /\ UNCHANGED sessVars
    /\ UNCHANGED routeVars
    /\ UNCHANGED dm
    /\ GateFrame

\* The analyze handler resumes when its provider call returns.
AnalyzeResume(sl, outcome) ==
    /\ AnalyzeComplete(sl, outcome)
    /\ UNCHANGED <<req, dm>>
    /\ GateFrame

GateInit ==
    /\ req = NoReq
    /\ dm = NoDm
    /\ sent = NoSent

(***************************************************************************)
(* MemeService.sendDirectMessage and sendHackyMessage (src/unnamed/        *)
(* part_001 lines 140-194), the clients of the direct-message route.       *)
(***************************************************************************)
\* What becomes of the fetch: the route answers, the middleware answers 429,
\* or the server is not reached and fetch rejects.
HttpOutcomes == {"route", "limited", "unreachable"}
FetchFailed == "fetch failed"

\* lines 158-163 and 184-189: data = await response.json(); a body without a
\* true success throws Error(data.error), otherwise data.message is returned.
ResultOfNeverThrows(body) ==
    IF "success" \in DOMAIN body /\ body.success
    THEN [result |-> "text", value |-> body.message]
    ELSE [result |-> "text", value |-> body.error]
ResultOf(body) ==
    IF "success" \in DOMAIN body /\ body.success
    THEN [result |-> "text", value |-> body.message]
    ELSE [result |-> "error", value |-> body.error]

\* lines 146-167 and 172-193: the one fetch of a call and what the call makes
\* of the response; the catch logs the error and throws it on.
Post(op, message, description, memeName, http, outcome) ==
    LET called == http = "route" /\ CallsProvider(message, description, memeName)
        r == IF http = "route"
             THEN ResultOf(DirectMessageResponse(message, description,
                                                 memeName, outcome).body)
             ELSE IF http = "limited"
             THEN ResultOf([error |-> TooManyRequests])
             ELSE [result |-> "error", value |-> FetchFailed]
    IN  /\ sent.n < MaxRequests
        /\ IF http = "route"
           THEN DirectMessagePOST(message, description, memeName, outcome)
           ELSE UNCHANGED dm
        /\ sent' = [n |-> sent.n + 1, op |-> op, requests |-> 1,
                    provider |-> IF called THEN outcome ELSE "none",
                    result |-> r.result, value |-> r.value]
        /\ UNCHANGED svc

\* lines 140-168: sendDirectMessage(message)
sendDirectMessage(message, http, outcome) ==
    IF ~svc.analysed
    THEN /\ sent.n < MaxRequests
         /\ sent' = [n |-> sent.n + 1, op |-> "direct", requests |-> 0,
                     provider |-> "none", result |-> "error",
                     value |-> MustAnalyze]
         /\ UNCHANGED <<dm, svc>>
    ELSE Post("direct", message, TRUE, svc.memeName # <<>>, http, outcome)

\* lines 170-194: sendHackyMessage(message), with HACKY_DESCRIPTION and the
\* name 'Hacky'
sendHackyMessageAsCharacter(message, http, outcome) ==
    LET r == IF http = "route"
             THEN ResultOf(DirectMessageResponse(message, TRUE, TRUE, outcome).body)
             ELSE [result |-> "error", value |-> FetchFailed]
    IN  /\ sent.n < MaxRequests
        /\ svc' = [svc EXCEPT !.analysis = HackyAnalysis, !.memeName = Hacky]
        /\ IF http = "route"
           THEN DirectMessagePOST(message, TRUE, TRUE, outcome)
           ELSE UNCHANGED dm
        /\ sent' = [n |-> sent.n + 1, op |-> "hacky", requests |-> 1,
                    provider |-> "none", result |-> r.result, value |-> r.value]
sendHackyMessage(message, http, outcome) ==
    Post("hacky", message, TRUE, TRUE, http, outcome)

\* lines 203-208: initializeCharacter(analysis, imageUrl)
initializeCharacter(service) ==
    /\ svc' = service
    /\ UNCHANGED genVars

\* lines 40-64: analizarImagen(formData): when the analyze route answers with
\* success the four fields are set to the analysed character (lines 52-57,
\* without an await between them); otherwise the call throws and sets none.
analizarImagen(service, success) ==
    /\ svc' = IF success THEN service ELSE svc
    /\ UNCHANGED genVars

\* What a call of the service leaves alone besides the route it reaches.
ServiceFrame ==
    UNCHANGED <<now, ticks, req>> /\ UNCHANGED rateVars /\ UNCHANGED sessVars
        /\ UNCHANGED routeVars /\ UNCHANGED chatVars

(***************************************************************************)
(* CharacterChat (src/ui/lib/src/models/CharacterChat.ts) over             *)
(* OpenAiService (src/unnamed/part_003).                                   *)
(***************************************************************************)
MemeNames == {"Pepe", "Doge"}
Descriptions == {"d1", "d2"}
HACKY_DESCRIPTION == "Name: Hacky"

\* CharacterChat.ts lines 5-6: both fields start as ''
NoChat == [descripcionPersonaje |-> "", memeName |-> ""]

\* part_003 lines 14-52: what openAiService.analizarImagen comes to: encodeImage
\* or the provider raises, the provider returns no content, or a description.
VisionOutcomes == {"raise", "empty"} \cup Descriptions

\* part_003 lines 107-145 as called by CharacterChat.ts lines 24-41: what
\* generateSingleMessage of a chat with the fields c comes to when the
\* provider raises, returns no content, or returns a text.
SingleMessage(c, isHacky, outcome) ==
    IF c.descripcionPersonaje = ""
    THEN [result |-> "error", speaker |-> "", character |-> "",
          value |-> "Must initialize chat with an image first"]
    ELSE [result |-> IF outcome = "raise" THEN "error" ELSE "text",
          speaker |-> IF isHacky THEN "Hacky" ELSE c.memeName,
          character |-> IF isHacky THEN HACKY_DESCRIPTION
                        ELSE c.descripcionPersonaje,
          value |-> IF outcome = "raise" THEN "Message generation error"
                    ELSE IF outcome = "empty" THEN "Error generating message"
                    ELSE outcome]

\* CharacterChat.ts lines 13-16: inicializarConImagen(imageName, memeName) up
\* to its await: memeName is assigned before the provider is called. The
\* model follows one call at a time.
inicializarConImagen(memeName) ==
    /\ init.state # "awaiting"
    /\ chat' = [chat EXCEPT !.memeName = memeName]
    /\ init' = [state |-> "awaiting", was |-> chat, error |-> ""]
    /\ UNCHANGED single

\* CharacterChat.ts lines 16-21: the awaited analizarImagen returns the
\* description, which is stored and returned, or throws, which is logged and
\* thrown on.
inicializarReturns(outcome) ==
    /\ init.state = "awaiting"
    /\ IF outcome \in Descriptions
       THEN /\ chat' = [chat EXCEPT !.descripcionPersonaje = outcome]
            /\ init' = [init EXCEPT !.state = "returned"]
       ELSE /\ UNCHANGED chat
            /\ init' = [init EXCEPT !.state = "threw",
                                    !.error = "Image analysis error"]
    /\ UNCHANGED single

\* CharacterChat.ts lines 24-41: generateSingleMessage(isHacky, topic,
\* previousMessages)
generateSingleMessage(isHacky, outcome) ==
    /\ single' = SingleMessage(chat, isHacky, outcome)
    /\ UNCHANGED <<chat, init>>

\* CharacterChat.ts lines 5-11
ChatInit ==
    /\ chat = NoChat
    /\ init = [state |-> "none", was |-> NoChat, error |-> ""]
    /\ single = [result |-> "none", speaker |-> "", character |-> "",
                 value |-> ""]

\* What a call of the chat leaves alone.
ChatFrame ==
    UNCHANGED <<now, ticks>> /\ UNCHANGED rateVars /\ UNCHANGED sessVars
        /\ UNCHANGED routeVars /\ UNCHANGED gateVars /\ UNCHANGED parseVars

RateStoreInit ==
    /\ store = [key \in {} |-> NoEntry]
    /\ rl = NoCall
    /\ calls = 0
    /\ win = [key \in Keys \cup {Localhost} |-> NoWindow]
    /\ log = [key \in Keys \cup {Localhost} |-> <<>>]

RateInit ==
    /\ now = 0
    /\ ticks = 0
    /\ RateStoreInit
    /\ SessionManagerInit
    /\ RouteInit
    /\ GateInit
    /\ ChatInit
    /\ ServiceIdleInit

RateNext ==
    \/ \E ip \in Keys : Request(ip)
    \/ \E d \in RateSteps : RateTick(d)

SpecRate == RateInit /\ [][RateNext]_vars

RateLogNext ==
    \/ \E ip \in Keys : LoggedRequest(ip)
    \/ \E d \in RateSteps : RateTick(d)

SpecRateLog == RateInit /\ [][RateLogNext]_vars

SessInit ==
    /\ now = 0
    /\ ticks = 0
    /\ RateStoreInit
    /\ SessionManagerInit
    /\ RouteInit
    /\ GateInit
    /\ ChatInit
    /\ ServiceIdleInit

SessNext ==
    \/ CreateOp
    \/ GetOp
    \/ UpdateOp({[analysis |-> "a1"]})
    \/ SweepOp
    \/ \E t \in {nextSweep - 1, nextSweep} : SessTick(t)

SpecSession == SessInit /\ [][SessNext]_vars

PatchNext ==
    \/ CreateOp
    \/ GetOp
    \/ UpdateOp(Patches)
    \/ \E t \in {now + 1} \cap (0..MaxPatchTime) : SessTick(t)

SpecPatch == SessInit /\ [][PatchNext]_vars

AnalyzeNext ==
    \/ CreateOp
    \/ \E sessionId \in Known \cup {""}, file \in BOOLEAN, memeName \in BOOLEAN :
          AnalyzeReceive(sessionId, file, memeName) /\ SessFrame
    \/ \E sl \in Slots, outcome \in ProviderOutcomes :
          AnalyzeComplete(sl, outcome) /\ SessFrame
    \/ SweepOp
    \/ \E t \in {nextSweep} : SessTick(t)

SpecAnalyze == SessInit /\ [][AnalyzeNext]_vars

\* Analyze requests for ids that are known, made up or evicted, with provider
\* calls that fail.
LookupNext ==
    \/ CreateOp
    \/ \E sessionId \in Known, file \in BOOLEAN :
          AnalyzeReceive(sessionId, file, TRUE) /\ SessFrame
    \/ \E sl \in Slots : AnalyzeComplete(sl, "raise") /\ SessFrame
    \/ SweepOp
    \/ \E t \in {nextSweep} : SessTick(t)

SpecLookup == SessInit /\ [][LookupNext]_vars

\* Analyze requests for one session in flight together, between updates of
\* the session's memeService.
InterleaveNext ==
    \/ \E sessionId \in ClientIds :
          AnalyzeReceive(sessionId, TRUE, TRUE) /\ SessFrame
    \/ \E sl \in Slots, outcome \in {"raise"} \cup Analyses :
          AnalyzeComplete(sl, outcome) /\ SessFrame
    \/ UpdateOp({[memeService |-> "m1"]})
    \/ \E t \in {now + 1} \cap (0..MaxPatchTime) : SessTick(t)

SpecInterleave == SessInit /\ [][InterleaveNext]_vars

ParseInit ==
    /\ now = 0
    /\ ticks = 0
    /\ RateStoreInit
    /\ SessionManagerInit
    /\ RouteInit
    /\ GateInit
    /\ ChatInit
    /\ svc \in {NoService, PepeService, HackyService}
    /\ gen = "idle"
    /\ fetches = 0
    /\ asked = NoAsked
    /\ err = ""
    /\ stream \in Streams
    /\ pos = 0
    /\ reads = 0
    /\ buffer = <<>>
    /\ lines = <<>>
    /\ turns = <<>>

ParseNext ==
    \/ \E hasBody \in BOOLEAN : GenStart(hasBody) /\ ParseFrame
    \/ \E n \in 0..Len(stream) : Read(n) /\ ParseFrame
    \/ NextLine /\ ParseFrame
    \/ ReadDone /\ ParseFrame

SpecParse == ParseInit /\ [][ParseNext]_vars

\* The page replaces the character of its MemeService, by a new upload
\* (analizarImagen) or by initializeCharacter, at times of its own: before,
\* after, and while generateConversation waits for the next chunk.
ReplaceInit ==
    /\ now = 0
    /\ ticks = 0
    /\ RateStoreInit
    /\ SessionManagerInit
    /\ RouteInit
    /\ GateInit
    /\ ChatInit
    /\ svc \in {NoService, PepeService}
    /\ gen = "idle"
    /\ fetches = 0
    /\ asked = NoAsked
    /\ err = ""
    /\ stream \in {HackyGm, Odd, Both}
    /\ pos = 0
    /\ reads = 0
    /\ buffer = <<>>
    /\ lines = <<>>
    /\ turns = <<>>

ReplaceNext ==
    \/ \E hasBody \in BOOLEAN : GenStart(hasBody) /\ ParseFrame
    \/ \E n \in 0..Len(stream) : Read(n) /\ ParseFrame
    \/ NextLine /\ ParseFrame
    \/ ReadDone /\ ParseFrame
    \/ \E service \in Characters :
          lines = <<>> /\ initializeCharacter(service) /\ ParseFrame
    \/ \E service \in Characters, success \in BOOLEAN :
          lines = <<>> /\ analizarImagen(service, success) /\ ParseFrame

SpecReplace == ReplaceInit /\ [][ReplaceNext]_vars

\* A CharacterChat and its callers.
ChatNext ==
    \/ \E memeName \in MemeNames : inicializarConImagen(memeName) /\ ChatFrame
    \/ \E outcome \in VisionOutcomes : inicializarReturns(outcome) /\ ChatFrame
    \/ \E isHacky \in BOOLEAN, outcome \in {"raise", "empty", "gm"} :
          generateSingleMessage(isHacky, outcome) /\ ChatFrame

SpecChat == SessInit /\ [][ChatNext]_vars

\* Requests as clients send them: through the middleware to the route
\* handlers, and what the provider calls of the handlers come to.
GatewayNext ==
    \/ \E path \in Paths, ip \in Ips : middleware(path, ip)
    \/ SessionCreateGET
    \/ \E sessionId \in ClientIds \cup {""}, file \in BOOLEAN :
          AnalyzePOST(sessionId, file, TRUE)
    \/ \E message \in BOOLEAN, outcome \in CompletionOutcomes :
          DirectMessageRoute(message, TRUE, TRUE, outcome)
    \/ ChatRoute
    \/ ServePage
    \/ \E sl \in Slots, outcome \in {"raise", "a1"} : AnalyzeResume(sl, outcome)

SpecGateway == SessInit /\ [][GatewayNext]_vars

\* A page's MemeService next to the server's session store.
ServiceInit ==
    /\ now = 0
    /\ ticks = 0
    /\ RateStoreInit
    /\ SessionManagerInit
    /\ RouteInit
    /\ GateInit
    /\ ChatInit
    /\ svc = NoService
    /\ gen = "idle"
    /\ fetches = 0
    /\ asked = NoAsked
    /\ err = ""
    /\ stream = HackyGm
    /\ pos = 0
    /\ reads = 0
    /\ buffer = <<>>
    /\ lines = <<>>
    /\ turns = <<>>

ServiceNext ==
    \/ CreateOp
    \/ \E sessionId \in issued :
          updateSession(sessionId, [analysis |-> "a1"]) /\ SessFrame
              /\ UNCHANGED routeVars
    \/ initializeCharacter(PepeService) /\ UNCHANGED <<dm, sent>> /\ ServiceFrame
    \/ \E message \in BOOLEAN, http \in HttpOutcomes, outcome \in CompletionOutcomes :
          sendDirectMessage(message, http, outcome) /\ UNCHANGED genVars
              /\ ServiceFrame
    \/ \E message \in BOOLEAN, http \in HttpOutcomes, outcome \in CompletionOutcomes :
          sendHackyMessage(message, http, outcome) /\ UNCHANGED genVars
              /\ ServiceFrame
    \/ \E hasBody \in BOOLEAN : GenStart(hasBody) /\ ParseFrame
    \/ \E n \in 0..Len(stream) : Read(n) /\ ParseFrame
    \/ NextLine /\ ParseFrame
    \/ ReadDone /\ ParseFrame

SpecService == ServiceInit /\ [][ServiceNext]_vars

(***************************************************************************)
(* C1: for every key, the first 10 calls of a 60,000 ms window (opened by  *)
(* the key's first call of the window) are allowed, the 11th and every     *)
(* later call of that window is not allowed, and the first call made after *)
(* the window has elapsed is allowed and restarts the count at 1.          *)
(* rl is the last call and win[rl.ip].n its position in its window.        *)
(***************************************************************************)
C1_TenPerWindow ==
    rl # NoCall =>
        LET w == win[rl.ip] IN
        /\ w.n <= 10 => rl.success
        /\ w.n >= 11 => ~rl.success
        /\ w.n = 1 => /\ rl.ip \in DOMAIN store
                      /\ store[rl.ip] = [count |-> 1, timestamp |-> rl.at]

\* A key was refused in a window that saw more than 10 calls, and its first
\* call after that window elapsed is allowed with the count back at 1.
C1_Witness ==
    /\ rl # NoCall
    /\ rl.success
    /\ win[rl.ip].n = 1
    /\ win[rl.ip].prev > 10
    /\ store[rl.ip].count = 1

\* The number of logged calls of key k made at times lo..hi.
CallsIn(k, lo, hi) ==
    Cardinality({i \in DOMAIN log[k] : lo <= log[k][i] /\ log[k][i] <= hi})

(***************************************************************************)
(* C2 as stated: each key's stored count is the number of its calls made   *)
(* at times t with windowStart <= t < windowStart + windowMs.              *)
(***************************************************************************)
C2_Original ==
    \A k \in DOMAIN store :
        store[k].count =
            CallsIn(k, store[k].timestamp, store[k].timestamp + windowMs - 1)

C2_CountInv ==
    \A k \in DOMAIN store :
        store[k].count =
            CallsIn(k, store[k].timestamp, store[k].timestamp + windowMs)

C2_ResetStep ==
    \A ip \in Keys :
        (log'[ip] # log[ip] /\ ip \in DOMAIN store
            /\ now > store[ip].timestamp + windowMs)
        => store'[ip] = [count |-> 1, timestamp |-> now]

(***************************************************************************)
(* C2, amended: each key's stored count is the number of its calls made at *)
(* times t with windowStart <= t <= windowStart + windowMs (none lost,     *)
(* none counted twice), and a call at a time t > windowStart + windowMs    *)
(* resets count to 1 and windowStart to t.                                 *)
(***************************************************************************)
C2_CountIsCallsInWindow == []C2_CountInv /\ [][C2_ResetStep]_vars

\* A key's window was restarted by a call made after it had elapsed, and a
\* call made exactly windowMs after the new window start was counted in it.
C2_Witness ==
    /\ rl # NoCall
    /\ rl.ip \in DOMAIN store
    /\ win[rl.ip].prev > 0
    /\ rl.at = store[rl.ip].timestamp + windowMs
    /\ store[rl.ip].count >= 2

(***************************************************************************)
(* C3: getSession(id) never fails and never returns not-found: a present   *)
(* id returns the stored session and leaves the store alone; an absent id  *)
(* gets a new session with that id and no analysis inserted and returned;  *)
(* afterwards id is present in the store.                                  *)
(***************************************************************************)
C3_GetStep ==
    (ret'.op = "get" /\ ret' # ret) =>
        LET id == ret'.id IN
        /\ id \in DOMAIN sessions'
        /\ ret'.val = sessions'[id]
        /\ ret'.val # NoSession
        /\ id \in DOMAIN sessions =>
              ret'.val = sessions[id] /\ sessions' = sessions
        /\ id \notin DOMAIN sessions =>
              /\ ret'.val = [id |-> id, lastActive |-> now,
                             memeService |-> Undef, analysis |-> Undef]
              /\ sessions' = Put(sessions, id, ret'.val)

\* C3: every getSession step returns a session as C3_GetStep describes.
C3_GetNeverFails == [][C3_GetStep]_vars

\* getSession was called with an id createSession never issued and returned a
\* freshly inserted session without analysis.
C3_Witness ==
    /\ ret.op = "get"
    /\ ~ret.found
    /\ ret.id \notin issued
    /\ ret.id \in DOMAIN sessions
    /\ ret.val.analysis = Undef

(***************************************************************************)
(* C4 as stated: after createSession, getSession, or updateSession on a    *)
(* present id, performed at time t, the session's lastActive equals t;     *)
(* also when getSession finds an already existing session.                 *)
(***************************************************************************)
C4_Original ==
    (ret.op \in {"create", "get"} \/ (ret.op = "update" /\ ret.found)) =>
        sessions[ret.id].lastActive = ret.at

(***************************************************************************)
(* C5 as stated: a session touched (getSession or updateSession) at least  *)
(* once every 5 minutes is never removed by the sweep. Stated for the      *)
(* session of Watched: it is not evicted unless it lapsed.                 *)
(***************************************************************************)
C5_Original ==
    ~(Watched \in evicted /\ Watched \notin DOMAIN sessions /\ ~lapsed)

(***************************************************************************)
(* C6: a sweep removes every session whose lastActive is more than 30      *)
(* minutes before the sweep, removes no session whose lastActive is 30     *)
(* minutes old or less, and changes no field of the sessions it keeps.     *)
(***************************************************************************)
C6_SweepStep ==
    (ret'.op = "sweep" /\ ret' # ret) =>
        /\ DOMAIN sessions' \subseteq DOMAIN sessions
        /\ \A id \in DOMAIN sessions :
              IF now - sessions[id].lastActive > 30 * 60 * 1000
              THEN id \notin DOMAIN sessions'
              ELSE id \in DOMAIN sessions' /\ sessions'[id] = sessions[id]

\* C6: every sweep removes exactly the sessions older than 30 minutes.
C6_SweepRemovesExactlyTheExpired == [][C6_SweepStep]_vars

\* A sweep has removed the session of u1 and kept the session of x, whose
\* lastActive is exactly 30 minutes old.
C6_Witness ==
    /\ ret.op = "sweep"
    /\ "u1" \in evicted
    /\ "u1" \notin DOMAIN sessions
    /\ "x" \in DOMAIN sessions
    /\ now - sessions["x"].lastActive = 30 * 60 * 1000

\* What the getSession(id) that follows an update step returns.
NextGet(id) == getSessionRet(sessions', id, now')

(***************************************************************************)
(* C7 as stated: after updateSession(id, patch) on a present id the next   *)
(* getSession(id) returns a session in which every field named in patch    *)
(* has the patch's value.                                                  *)
(***************************************************************************)
C7_OriginalStep ==
    (ret'.op = "update" /\ ret' # ret /\ ret'.id \in DOMAIN sessions) =>
        \A f \in DOMAIN ret'.data : NextGet(ret'.id)[f] = ret'.data[f]

\* C7 as stated, for every updateSession step on a present id.
C7_Original == [][C7_OriginalStep]_vars

C7_MergeStep ==
    (ret'.op = "update" /\ ret' # ret /\ ret'.id \in DOMAIN sessions) =>
        LET id == ret'.id
            patch == ret'.data
            got == NextGet(id)
        IN  /\ \A f \in (DOMAIN patch) \ {"lastActive"} : got[f] = patch[f]
            /\ \A f \in Fields \ (DOMAIN patch \cup {"lastActive"}) :
                  got[f] = sessions[id][f]
            /\ got.lastActive = now
            /\ DOMAIN sessions' = DOMAIN sessions
            /\ \A other \in DOMAIN sessions \ {id} :
                  sessions'[other] = sessions[other]

(***************************************************************************)
(* C7, amended: if id is present, then after updateSession(id, patch) the  *)
(* next getSession(id) returns a session in which every field named in     *)
(* patch other than lastActive has the patch's value, lastActive is the    *)
(* time of the update whether or not patch names it, and every other field *)
(* keeps its previous value; the store still holds exactly one entry for   *)
(* id and its other entries are unchanged.                                 *)
(***************************************************************************)
C7_UpdateMerges == [][C7_MergeStep]_vars

\* A session holding an analysis was patched with a memeService only: it has
\* both, and its lastActive moved to the time of the update.
C7_Witness ==
    /\ ret.op = "update"
    /\ ret.found
    /\ DOMAIN ret.data = {"memeService"}
    /\ sessions[ret.id].analysis = "a2"
    /\ sessions[ret.id].memeService = "m1"
    /\ sessions[ret.id].lastActive = now
    /\ now > 0

(***************************************************************************)
(* C8: updateSession(id, patch) on an id absent from the store (never      *)
(* created, or already evicted) leaves the whole store unchanged and does  *)
(* not create a session under id.                                          *)
(***************************************************************************)
C8_AbsentStep ==
    (ret'.op = "update" /\ ret' # ret /\ ret'.id \notin DOMAIN sessions) =>
        /\ sessions' = sessions
        /\ ret'.id \notin DOMAIN sessions'

\* C8: every updateSession step on an absent id leaves the store unchanged.
C8_UpdateOfAbsentIsNoOp == [][C8_AbsentStep]_vars

\* updateSession was called for an id the sweep had evicted.
C8_Witness ==
    /\ ret.op = "update"
    /\ ~ret.found
    /\ ret.id \in evicted
    /\ ret.id \notin DOMAIN sessions

(***************************************************************************)
(* C9 as stated: a session in use by an in-flight analyze request is never *)
(* evicted between the request's getSession and its updateSession, and     *)
(* whenever the analyze request reports success the store holds that       *)
(* analysis under its sessionId.                                           *)
(***************************************************************************)
C9_OriginalStep ==
    /\ \A sl \in Slots :
          (inflight[sl] # Free /\ inflight[sl] \in DOMAIN sessions)
              => inflight[sl] \in DOMAIN sessions'
    /\ (resp'.n # resp.n /\ resp'.success) =>
          /\ resp'.sid \in DOMAIN sessions'
          /\ sessions'[resp'.sid].analysis = resp'.analysis

\* C9 as stated, for every step.
C9_Original == [][C9_OriginalStep]_vars

\* The turns of the complete (newline-terminated) lines of the whole stream,
\* decoded as one piece.
Yields(t) == t # <<>>
WholeParse(bytes, memeName, imageUrl) ==
    LET parts == split(decode(bytes))
        each == [k \in 1..(Len(parts) - 1) |->
                    ProcessLine(parts[k], memeName, imageUrl)]
        some == SelectSeq(each, Yields)
    IN  [k \in 1..Len(some) |-> some[k][1]]

(***************************************************************************)
(* C10 as stated: for a fixed stream and character name the turns emitted  *)
(* by generateConversation are the same for every way of cutting the       *)
(* stream into chunks: once the stream has ended they equal the result of  *)
(* parsing the complete lines of the concatenated stream.                  *)
(***************************************************************************)
C10_Original ==
    gen = "done" => turns = WholeParse(stream, svc.memeName, svc.imageUrl)

\* A complete line qualifies when it starts with 'data: ', its payload parses
\* and the payload's message is a non-empty string; MessageOf is that message.
MessageOf(line) == JSONparse(Slice(line, 5)).message
Qualifies(line) ==
    /\ StartsWith(line, DataPrefix)
    /\ JSONparse(Slice(line, 5)).kind = "object"
    /\ JSONparse(Slice(line, 5)).type = "string"
    /\ MessageOf(line) # <<>>

\* The turns of the qualifying lines among ls, in the order of ls.
Expected(ls) ==
    LET q == SelectSeq(ls, Qualifies) IN
    [k \in 1..Len(q) |-> TurnOf(MessageOf(q[k]), svc.memeName, svc.imageUrl)]

\* The step that processes the complete line Head(lines).
LineStep == lines # <<>> /\ lines' # lines

C11_DropStep ==
    LineStep =>
        /\ ~Qualifies(Head(lines)) =>
              /\ turns' = turns
              /\ gen' = "reading"
              /\ err' = err
              /\ buffer' = buffer
        /\ lines' = Tail(lines)
        /\ turns' \o Expected(lines') = turns \o Expected(lines)

(***************************************************************************)
(* C11: a complete line that does not start with 'data: ', whose payload   *)
(* fails to parse, or whose payload has no non-empty string message yields *)
(* no turn, raises no error and does not end the stream, and the turns of  *)
(* the lines after it are those they yield without it.                     *)
(***************************************************************************)
C11_BadLinesAreDropped == [][C11_DropStep]_vars

ToTheMoon ==
    <<"t", "o", " ", "t", "h", "e", " ", "m", "o", "o", "n">>
Frens ==
    <<"f", "r", "e", "n", "s">>

\* The stream with a comment line, an empty line, a line that is no JSON and
\* a truncated last line has ended, and its one valid line gave its turn.
C11_Witness ==
    /\ gen = "done"
    /\ stream = Mixed
    /\ err = ""
    /\ Len(turns) = 1
    /\ turns[1].speaker = Pepe
    /\ turns[1].message = ToTheMoon

\* s without its first k characters.
Drop(s, k) == [i \in 1..(Len(s) - k) |-> s[i + k]]

C12_TurnStep ==
    (LineStep /\ Qualifies(Head(lines))
        /\ ~StartsWith(MessageOf(Head(lines)), HackyMarker)) =>
        LET m == MessageOf(Head(lines))
            N == svc.memeName
        IN  /\ Len(turns') = Len(turns) + 1
            /\ SubSeq(turns', 1, Len(turns)) = turns
            /\ turns'[Len(turns')].speaker = N
            /\ turns'[Len(turns')].message = Trim(Drop(m, Len(N) + 1))
            /\ StartsWith(m, N \o <<":">>) =>
                  m = (N \o <<":">>) \o Drop(m, Len(N) + 1)

(***************************************************************************)
(* C12: a data line whose message does not begin with 'Hacky:' yields      *)
(* exactly one turn, with the character name N as speaker and, as message, *)
(* the line's message without its first len(N)+1 characters, trimmed; for  *)
(* a message N ':' T that is trim(T).                                      *)
(***************************************************************************)
C12_NamePrefixStripped == [][C12_TurnStep]_vars

\* For the name Pepe, "Wagmi frens" gave the turn "frens" and
\* "Pepe: to the moon" the turn "to the moon".
C12_Witness ==
    /\ stream = Odd
    /\ svc.memeName = Pepe
    /\ Len(turns) = 2
    /\ turns[1] = [speaker |-> Pepe, message |-> Frens,
                   imageUrl |-> svc.imageUrl, isHacky |-> FALSE]
    /\ turns[2] = [speaker |-> Pepe, message |-> ToTheMoon,
                   imageUrl |-> svc.imageUrl, isHacky |-> FALSE]

C13_EndStep ==
    (gen = "reading" /\ gen' # "reading") =>
        /\ gen' = "done"
        /\ err' = ""
        /\ lines = <<>>
        /\ turns' = turns

C13_EndInv ==
    /\ gen = "done" =>
          /\ err = ""
          /\ Len(turns) = Len(WholeParse(stream, svc.memeName, svc.imageUrl))
          /\ stream = <<>> => turns = <<>>
    /\ (gen \in {"reading", "done"} /\ pos = 0) =>
          turns = <<>> /\ buffer = <<>> /\ lines = <<>>

(***************************************************************************)
(* C13: at end-of-stream the turn sequence ends without error, with one    *)
(* turn for every qualifying complete line of the stream emitted; what the *)
(* buffer still holds, never terminated by a newline, gives no turn; a     *)
(* stream closed at once, or after zero-length chunks only, gives none.    *)
(***************************************************************************)
C13_EndOfStream == []C13_EndInv /\ [][C13_EndStep]_vars

\* The stream ended after several chunks with a whole data line in the
\* buffer that no newline ever terminated: it gave no turn.
C13_Witness ==
    /\ gen = "done"
    /\ stream = Unterminated
    /\ reads = MaxReads
    /\ buffer = Unterminated
    /\ ProcessLine(buffer, svc.memeName, svc.imageUrl) # <<>>
    /\ turns = <<>>
    /\ err = ""

\* The text of the lines ls, each ended by a newline, followed by rest.
RECURSIVE Join(_, _)
Join(ls, rest) ==
    IF ls = <<>> THEN rest ELSE (Head(ls) \o <<"\n">>) \o Join(Tail(ls), rest)

C14_OrderStep ==
    /\ Len(turns') >= Len(turns)
    /\ SubSeq(turns', 1, Len(turns)) = turns
    /\ LineStep =>
          /\ lines' = Tail(lines)
          /\ Len(turns') = Len(turns) + (IF Qualifies(Head(lines)) THEN 1 ELSE 0)
          /\ turns' = turns \o Expected(<<Head(lines)>>)
    /\ reads' # reads =>
          /\ lines = <<>>
          /\ turns' = turns
          /\ Join(lines', buffer') =
                 buffer \o decode(SubSeq(stream, pos + 1, pos'))

(***************************************************************************)
(* C14: turns are emitted in the order in which their complete lines       *)
(* arrived: a chunk's complete lines are taken in wire order, each         *)
(* qualifying line appends exactly one turn after all earlier turns, and   *)
(* no chunk is read while a complete line of the chunk before it is still  *)
(* unprocessed.                                                            *)
(***************************************************************************)
C14_WireOrder == [][C14_OrderStep]_vars

\* Two qualifying lines arrived in one chunk, after an earlier chunk: the
\* turn of the first is out, the second line is the only one still waiting.
C14_Witness ==
    /\ gen = "reading"
    /\ stream = Odd
    /\ reads >= 2
    /\ Len(lines) = 1
    /\ Qualifies(lines[1])
    /\ MessageOf(lines[1]) = Pepe \o <<":", " ">> \o ToTheMoon
    /\ Len(turns) = 1
    /\ turns[1].message = Frens

(***************************************************************************)
(* C15: generateConversation invoked with no character analysis held fails *)
(* with the error 'Must analyze image first' and issues no request;        *)
(* invoked with an analysis held it issues exactly one request, however    *)
(* many chunks are read and turns yielded.                                 *)
(***************************************************************************)
C15_OneRequestOrNone ==
    /\ gen = "idle" => fetches = 0
    /\ (gen # "idle" /\ ~svc.analysed) =>
          /\ gen = "failed"
          /\ err = "Must analyze image first"
          /\ fetches = 0
          /\ reads = 0
          /\ turns = <<>>
    /\ (gen # "idle" /\ svc.analysed) =>
          /\ fetches = 1
          /\ err # "Must analyze image first"

\* An invocation with an analysis held has read several chunks and yielded
\* two turns, and ended, on its one request.
C15_Witness ==
    /\ svc.analysed
    /\ gen = "done"
    /\ reads >= 2
    /\ Len(turns) >= 2
    /\ fetches = 1

\* A step in which a route handler starts: a request is handled, or the
\* session store, the analyze requests or the direct-message responses change
\* otherwise than by an analyze handler that resumes after its provider call.
Resumes == \E sl \in Slots : inflight[sl] # Free /\ inflight'[sl] = Free
HandlerStarts ==
    \/ req'.stage = "handled" /\ req' # req
    \/ /\ ~Resumes
       /\ \/ sessions' # sessions
          \/ issued' # issued
          \/ inflight' # inflight
          \/ resp' # resp
          \/ dm' # dm

\* rateLimit was called for the request req, for its key, after it arrived and
\* by no request since, and returned allowed.
Allowed ==
    /\ req.stage = "next"
    /\ calls = req.seen + 1
    /\ rl # NoCall
    /\ rl.ip = req.key
    /\ rl.success

C16_GateStep ==
    /\ HandlerStarts => Allowed
    /\ (calls' = calls + 1 /\ ~rl'.success) =>
          /\ req'.stage = "rejected"
          /\ req'.status = 429
          /\ sessions' = sessions
          /\ issued' = issued
          /\ inflight' = inflight
          /\ resp' = resp
          /\ dm' = dm
    /\ req.stage = "rejected" => req'.stage # "handled"

(***************************************************************************)
(* C16: no route handler runs unless rateLimit was called first for that   *)
(* request, for the caller's key, and returned allowed; a request whose    *)
(* check is not allowed is answered with the rejection (429) and changes   *)
(* neither the session store nor the route state, and calls no provider.   *)
(***************************************************************************)
C16_RateLimitFirst == [][C16_GateStep]_vars

\* After a session was created and a direct message answered by the provider,
\* a request of a caller without ip was refused for the key 127.0.0.1.
C16_Witness ==
    /\ req.stage = "rejected"
    /\ req.status = 429
    /\ rl.ip = Localhost
    /\ ~rl.success
    /\ store[Localhost].count = limit + 1
    /\ issued # {}
    /\ sessions # << >>
    /\ dm.provider \in Replies

C17_OriginalStep ==
    \A sl \in Slots :
        (inflight[sl] # Free /\ inflight'[sl] = Free
            /\ resp'.n # resp.n /\ resp'.status = 500) =>
            /\ sessions' = sessions
            /\ ~made[sl]

(***************************************************************************)
(* C17 as stated: when the provider call of an analyze request fails, the  *)
(* failure is answered and the session store is as it was before the       *)
(* request began: the failing step changes no session and the request has  *)
(* created none.                                                           *)
(***************************************************************************)
C17_Original == [][C17_OriginalStep]_vars

C18_SendStep ==
    sent'.n # sent.n =>
        LET call == sent' IN
        /\ call.requests \in {0, 1}
        /\ dm'.n - dm.n \in {0, 1}
        /\ dm'.n - dm.n <= call.requests
        /\ call.result \in {"text", "error"}
        /\ call.op = "hacky" => call.requests = 1
        /\ call.op = "direct" =>
              /\ call.requests = 0 <=> ~svc.analysed
              /\ ~svc.analysed =>
                    /\ call.result = "error"
                    /\ call.value = "Must analyze image first"
                    /\ dm' = dm
        /\ call.result = "text" =>
              /\ dm'.n = dm.n + 1
              /\ dm'.status = 200
              /\ dm'.provider \in Replies
              /\ call.value = dm'.provider
        /\ (dm'.n # dm.n /\ (dm'.provider \notin Replies \/ dm'.status # 200)) =>
              call.result = "error"

(***************************************************************************)
(* C18: sendDirectMessage and sendHackyMessage issue one request per call  *)
(* and never retry; when the provider returns no usable content, or the    *)
(* route reports a failure, the call fails with an error and returns no    *)
(* text; sendHackyMessage needs no character analysis, sendDirectMessage   *)
(* without one fails before any request.                                   *)
(***************************************************************************)
C18_OneRoundTrip == [][C18_SendStep]_vars

\* With no analysis held, sendHackyMessage made its one request, the provider
\* returned no content and the call failed with the route's error.
C18_Witness ==
    /\ ~svc.analysed
    /\ sent.op = "hacky"
    /\ sent.requests = 1
    /\ sent.provider = "empty"
    /\ dm.status = 500
    /\ sent.result = "error"
    /\ sent.value = NoValidReply

(***************************************************************************)
(* C19 as stated: every response of the direct-message route is either     *)
(* {success: true, message} or carries success = false together with an    *)
(* error string.                                                           *)
(***************************************************************************)
C19_Original ==
    dm.n > 0 =>
        /\ "success" \in DOMAIN dm.body
        /\ IF dm.body.success
           THEN "message" \in DOMAIN dm.body
           ELSE "error" \in DOMAIN dm.body

\* A step of generateConversation, sendDirectMessage or sendHackyMessage.
GenerateStep == genVars' # genVars
SendStep == sent'.n # sent.n

C20_FrameStep ==
    (GenerateStep \/ SendStep) =>
        /\ sessions' = sessions
        /\ svc'.analysis = svc.analysis
        /\ svc'.analysed = svc.analysed

(***************************************************************************)
(* C20: generateConversation, sendDirectMessage and sendHackyMessage never *)
(* change the session store or the held character analysis, whether they   *)
(* succeed or fail.                                                        *)
(***************************************************************************)
C20_CallsLeaveStateAlone == [][C20_FrameStep]_vars

\* With a session holding an analysis in the store and the analysis of Pepe
\* held, a conversation was generated to its end and a direct message
\* answered: store and analysis are as they were.
C20_Witness ==
    /\ "u1" \in DOMAIN sessions
    /\ sessions["u1"].analysis = "a1"
    /\ svc.analysis = PepeAnalysis
    /\ gen = "done"
    /\ Len(turns) = 1
    /\ sent.op = "direct"
    /\ sent.result = "text"

\* An update step of the session store: updateSession called directly, or by
\* the analyze handler of slot sl when its provider call returned an analysis.
Stores(sl) ==
    inflight[sl] # Free /\ inflight'[sl] = Free /\ resp'.status = 200

C21_UpdateStep ==
    /\ (ret'.op = "update" /\ ret' # ret /\ ret'.id \in DOMAIN sessions) =>
          LET id == ret'.id
              patch == ret'.data
          IN  /\ \A f \in DOMAIN patch \ {"lastActive"} :
                    sessions'[id][f] = patch[f]
              /\ \A f \in Fields \ (DOMAIN patch \cup {"lastActive"}) :
                    sessions'[id][f] = sessions[id][f]
    /\ \A sl \in Slots :
          (Stores(sl) /\ inflight[sl] \in DOMAIN sessions) =>
              LET id == inflight[sl] IN
              /\ sessions'[id].analysis = resp'.analysis
              /\ sessions'[id].memeService = sessions[id].memeService
              /\ sessions'[id].id = sessions[id].id
    /\ (ret' = ret /\ \A sl \in Slots : ~Stores(sl)) =>
          \A id \in DOMAIN sessions \cap DOMAIN sessions' :
              sessions'[id] = sessions[id]

(***************************************************************************)
(* C21: when updates of one session interleave, each update merges into    *)
(* the session as the store holds it when the update runs, not into the    *)
(* session an analyze request looked up earlier: the fields the patch      *)
(* names get the patch's values, so the last update's value is the stored  *)
(* one, every other field written before keeps its value, and no step      *)
(* other than an update changes a stored session.                          *)
(***************************************************************************)
C21_LastWriterWins == [][C21_UpdateStep]_vars

\* Two analyze requests for session x were in flight together, both having
\* looked the session up before it had an analysis or a memeService. The
\* memeService was then updated and the first request stored its analysis a1:
\* the session has both, while the second request, still in flight, holds the
\* session without either.
C21_Witness ==
    /\ inflight[1] = Free
    /\ inflight[2] = "x"
    /\ held[2].analysis = Undef
    /\ held[2].memeService = Undef
    /\ ret.op = "update"
    /\ ret.data = [analysis |-> "a1"]
    /\ resp.sid = "x"
    /\ resp.analysis = "a1"
    /\ sessions["x"].analysis = "a1"
    /\ sessions["x"].memeService = "m1"
    /\ sessions["x"].lastActive > held[2].lastActive

C22_CreateStep ==
    (ret'.op = "create" /\ ret' # ret) =>
        LET id == ret'.id IN
        /\ id \notin DOMAIN sessions
        /\ id \notin issued
        /\ issued' = issued \cup {id}
        /\ DOMAIN sessions' = DOMAIN sessions \cup {id}
        /\ sessions'[id] = [id |-> id, lastActive |-> now,
                            memeService |-> Undef, analysis |-> Undef]
        /\ \A other \in DOMAIN sessions : sessions'[other] = sessions[other]

(***************************************************************************)
(* C22: createSession returns an id that was not in the store before the   *)
(* call, adds exactly one session under it with lastActive = now and no    *)
(* analysis, and leaves every other session unchanged.                     *)
(***************************************************************************)
C22_CreateAddsOneSession == [][C22_CreateStep]_vars

\* createSession returned u1 at time 2 while the store held the session x
\* with an analysis stored at time 1: x is as it was, u1 is new.
C22_Witness ==
    /\ ret.op = "create"
    /\ ret.id = "u1"
    /\ now = 2
    /\ sessions["u1"] = [id |-> "u1", lastActive |-> 2,
                         memeService |-> Undef, analysis |-> Undef]
    /\ "x" \in DOMAIN sessions
    /\ sessions["x"].analysis = "a1"
    /\ sessions["x"].lastActive = 1

C23_PurgeStep ==
    calls' = calls + 1 =>
        LET k == rl'.ip IN
        /\ rl'.at = now
        /\ DOMAIN store' \subseteq DOMAIN store \cup {k}
        /\ \A key \in DOMAIN store' : now - store'[key].timestamp <= windowMs
        /\ \A key \in DOMAIN store \ {k} :
              IF now - store[key].timestamp > windowMs
              THEN key \notin DOMAIN store'
              ELSE key \in DOMAIN store' /\ store'[key] = store[key]

(***************************************************************************)
(* C23: a rateLimit(k) call removes every entry, of any key, whose window  *)
(* start is more than windowMs old, so that right after a call no stored   *)
(* entry is older than windowMs; the entries of keys other than k whose    *)
(* window has not expired keep their count and window start.               *)
(***************************************************************************)
C23_GlobalPurge == [][C23_PurgeStep]_vars

\* A call of ip1 has removed the entry of ip2, whose window had started more
\* than windowMs before and which made no call since.
C23_Witness ==
    /\ rl.ip = "ip1"
    /\ rl.at = now
    /\ "ip1" \in DOMAIN store
    /\ win["ip2"].start >= 0
    /\ now - win["ip2"].start > windowMs
    /\ "ip2" \notin DOMAIN store

C24_MarkerStep ==
    (LineStep /\ Qualifies(Head(lines))
        /\ StartsWith(MessageOf(Head(lines)), HackyMarker)) =>
        LET m == MessageOf(Head(lines)) IN
        /\ Len(turns') = Len(turns) + 1
        /\ SubSeq(turns', 1, Len(turns)) = turns
        /\ turns'[Len(turns')] =
              [speaker |-> <<"H", "a", "c", "k", "y">>,
               message |-> Trim(Drop(m, 6)),
               imageUrl |-> "/images/hacky.jpeg",
               isHacky |-> TRUE]

(***************************************************************************)
(* C24: the 'Hacky:' marker check comes before name-prefix stripping: for  *)
(* every character name, that of a character named 'Hacky' included, a     *)
(* message beginning with 'Hacky:' gives a turn of the fixed secondary     *)
(* persona (speaker 'Hacky', isHacky, the static image) whose text is the  *)
(* message without its first 6 characters, trimmed.                        *)
(***************************************************************************)
C24_MarkerFirst == [][C24_MarkerStep]_vars

\* For a character named Hacky with an image of its own, the line
\* 'Hacky: gm' gave the turn "gm" of the secondary persona.
C24_Witness ==
    /\ svc.memeName = Hacky
    /\ svc.imageUrl # HackyImage
    /\ stream = HackyGm
    /\ turns = <<[speaker |-> Hacky, message |-> <<"g", "m">>,
                  imageUrl |-> HackyImage, isHacky |-> TRUE]>>

C25_EmitStep ==
    (LineStep /\ Len(turns') = Len(turns) + 1) =>
        LET turn == turns'[Len(turns')] IN
        IF StartsWith(MessageOf(Head(lines)), HackyMarker)
        THEN /\ turn.isHacky
             /\ turn.speaker = <<"H", "a", "c", "k", "y">>
             /\ turn.imageUrl = "/images/hacky.jpeg"
        ELSE /\ ~turn.isHacky
             /\ turn.speaker = svc.memeName
             /\ turn.imageUrl = svc.imageUrl

C25_TurnsInv ==
    \A i \in DOMAIN turns :
        IF turns[i].isHacky
        THEN /\ turns[i].speaker = <<"H", "a", "c", "k", "y">>
             /\ turns[i].imageUrl = "/images/hacky.jpeg"
        ELSE \E c \in Characters :
                /\ turns[i].speaker = c.memeName
                /\ turns[i].imageUrl = c.imageUrl

C26_OriginalStep ==
    (init.state = "awaiting" /\ init'.state = "threw") =>
        \A isHacky \in BOOLEAN, outcome \in {"raise", "empty", "gm"} :
            SingleMessage(chat', isHacky, outcome) =
                SingleMessage(init.was, isHacky, outcome)

(***************************************************************************)
(* C26 as stated, in what it promises the caller: when the provider call   *)
(* inside inicializarConImagen fails, a later generateSingleMessage comes  *)
(* to what it would have come to with the meme name and the character      *)
(* description the chat had before the call.                               *)
(***************************************************************************)
C26_Original == [][C26_OriginalStep]_vars

(***************************************************************************)
(* C27 as stated: in every reachable state of the session store each       *)
(* stored session's id field equals the key it is stored under.            *)
(***************************************************************************)
C27_Original ==
    \A sessionId \in DOMAIN sessions : sessions[sessionId].id = sessionId

C28_LookupStep ==
    /\ resp'.n # resp.n => resp'.status \in {200, 400, 500}
    /\ (ret'.op = "get" /\ ret' # ret) =>
          /\ ret'.id \in DOMAIN sessions'
          /\ ret'.val = sessions'[ret'.id]
          /\ ~ret'.found => sessions'[ret'.id].analysis = Undef
          /\ \/ /\ resp'.n = resp.n + 1
                /\ resp'.status = 400
                /\ inflight' = inflight
             \/ /\ resp' = resp
                /\ \E sl \in Slots :
                      /\ inflight[sl] = Free
                      /\ inflight' = [inflight EXCEPT ![sl] = ret'.id]

(***************************************************************************)
(* C28: the analyze operation never answers 401: for a non-empty sessionId *)
(* that is known, that createSession never issued, or that was evicted,    *)
(* the lookup returns a session of the store, creating it when absent, and *)
(* the request goes on to the check of file and memeName, which answers    *)
(* 400, or to the provider call.                                           *)
(***************************************************************************)
C28_NeverInvalidSession == [][C28_LookupStep]_vars

\* An analyze request for u1, which createSession had issued and the sweep
\* had evicted, found no session, had one created, and awaits the provider.
C28_Witness ==
    /\ ret.op = "get"
    /\ ret.id = "u1"
    /\ ~ret.found
    /\ "u1" \in evicted
    /\ "u1" \in DOMAIN sessions
    /\ \E sl \in Slots : inflight[sl] = "u1" /\ made[sl]
    /\ resp.status # 401

C29_CallStep ==
    calls' = calls + 1 =>
        LET k == rl'.ip
            w == win[k]
        IN  IF w.start >= 0 /\ now - w.start <= 60000
            THEN /\ k \in DOMAIN store
                 /\ store[k].timestamp = w.start
                 /\ store'[k].count = store[k].count + 1
                 /\ store'[k].timestamp = store[k].timestamp
                 /\ rl'.success <=> store'[k].count <= 10
            ELSE /\ store'[k] = [count |-> 1, timestamp |-> now]
                 /\ rl'.success

(***************************************************************************)
(* C29: within an unexpired window every rateLimit call for a key, the     *)
(* rejected ones included, increases the key's count by exactly 1 and      *)
(* leaves its window start unchanged; rejected calls thus never extend the *)
(* window, and the key's first call made more than windowMs after the      *)
(* window start is allowed, whatever was called in between. win is the     *)
(* window as the times of the calls define it.                             *)
(***************************************************************************)
C29_RejectedCallsCount == [][C29_CallStep]_vars

\* A key over its limit called again exactly windowMs after its window
\* start: the call was rejected and counted, and the window start stayed.
C29_Witness ==
    /\ rl # NoCall
    /\ ~rl.success
    /\ rl.at = now
    /\ store[rl.ip].count = limit + 2
    /\ store[rl.ip].timestamp = now - windowMs
    /\ win[rl.ip].start = now - windowMs

(***************************************************************************)
(* C30 as stated: all turns emitted by one generateConversation invocation *)
(* are attributed with the character name and image that were in effect    *)
(* when the invocation sent its request, also when the character of the    *)
(* service is replaced between two chunk reads.                            *)
(***************************************************************************)
C30_Original ==
    gen \in {"reading", "done"} =>
        \A i \in DOMAIN turns :
            ~turns[i].isHacky =>
                /\ turns[i].speaker = asked.memeName
                /\ turns[i].imageUrl = asked.imageUrl

====
